---- MODULE Spec2Model ----
(***************************************************************************)
(* Model of the Pydance editor bridge, src/pydance/src/extension.ts:       *)
(* the module-level client reference, the activate and deactivate entry    *)
(* points, the registered search command and the file watcher handed to    *)
(* the language client.  The language client itself (LanguageClient of     *)
(* vscode-languageclient) is not part of the source; its state machine is  *)
(* taken from sections 4.3, 4.5 and 7 of the specification.                *)
(***************************************************************************)
EXTENDS Integers, Sequences, FiniteSets, TLC

(* ------------------------------ bounds --------------------------------- *)
\* total number of inputs the host delivers in one run: activate and deactivate
\* calls, invocations of the search command and file-system events
MaxInputs == 3

(* --------------------------- input universes --------------------------- *)
\* fsPath of the workspace folders the host may have open
Roots == {"/w1", "/w2"}

\* vscode.workspace.workspaceFolders: undefined, or an ordered list of folders
FolderConfigs ==
    {[defined |-> FALSE, list |-> <<>>],
     [defined |-> TRUE, list |-> <<>>],
     [defined |-> TRUE, list |-> <<"/w1">>],
     [defined |-> TRUE, list |-> <<"/w2", "/w1">>]}

\* numbers of symbols the host's symbol search may come back with
ResultCounts == {0, 2}

\* install directories of the extension (context.asAbsolutePath base)
ExtensionPaths == {<<"ext">>}

\* file names are sequences of characters, directories are whole segments
NamePy == <<"a", ".", "p", "y">>
NameTxt == <<"a", ".", "t", "x", "t">>

EventPaths ==
    {[dirs |-> <<>>, name |-> NamePy],
     [dirs |-> <<"src">>, name |-> NamePy],
     [dirs |-> <<"src">>, name |-> NameTxt],
     [dirs |-> <<".venv", "lib">>, name |-> NamePy]}

EventKinds == {"create", "change", "delete"}

(* ------------------------------- state --------------------------------- *)
VARIABLES
    workspaceFolders,  \* host: vscode.workspace.workspaceFolders as the last activation saw it
    extensionPath,     \* host: the directory context.asAbsolutePath resolves against
    client,            \* the module-level reference; 0 is undefined, else an index of clients
    clients,           \* every LanguageClient constructed so far, in construction order
    outputChannel,     \* the lines appended to the "Pydance" output channel
    calls,             \* the calls made on the client and on vscode.commands, in order
    stopCalls,         \* every client.stop() issued by deactivate, with its returned task
    subscriptions,     \* number of disposables pushed to context.subscriptions
    ret,               \* how the most recent entry-point call came back to the host
    unhandled,         \* clients whose start() task failed with nobody observing it
    activations,       \* number of activate calls so far
    deactivations,     \* number of deactivate calls so far
    searchPending,     \* search handlers suspended in their await
    searchResults,     \* result counts of the capability calls that returned
    searchFailed,      \* capability calls that failed
    lastEvent,         \* the most recent file-system event the host delivered
    eventCount         \* number of file-system events so far

vars == <<workspaceFolders, extensionPath, client, clients, outputChannel, calls,
          stopCalls, subscriptions, ret, unhandled, activations, deactivations,
          searchPending, searchResults, searchFailed, lastEvent, eventCount>>

hostVars == <<workspaceFolders, extensionPath>>
searchVars == <<searchPending, searchResults, searchFailed>>
eventVars == <<lastEvent, eventCount>>

(* ----------------------------- log lines ------------------------------- *)
Line(text) == [line |-> text, arg |-> <<>>]
LineArg(text, a) == [line |-> text, arg |-> a]

MsgActivating == "Pydance extension is activating..."
MsgServerPath == "Server path: "
MsgNoWorkspace == "No workspace folder found. Server not starting."
MsgWorkspaceRoot == "Workspace root: "
MsgStarting == "Starting language client..."
MsgStarted == "Language client started."
MsgSearchDone == "Symbol search command executed"
MsgStartFailed == "client: start failed"

(* --------------------- activate: pure computations --------------------- *)
\* path.join('server', 'target', 'release', 'symbol_search_lsp')
ServerRelPath == <<"server", "target", "release", "symbol_search_lsp">>

\* context.asAbsolutePath(rel)
asAbsolutePath(base, rel) == base \o rel

serverPath == asAbsolutePath(extensionPath, ServerRelPath)

\* workspaceFolders && workspaceFolders.length > 0 ? workspaceFolders[0].uri.fsPath : undefined
\* the result is <<>> for undefined and <<p>> for the string p
workspaceRoot(folders) ==
    IF folders.defined /\ Len(folders.list) > 0
    THEN <<folders.list[1]>>
    ELSE <<>>

\* !workspaceRoot: undefined and the empty string are both falsy
Aborts_Never(root) == FALSE

Aborts(root) == root = <<>> \/ root[1] = ""

\* serverOptions = { run: {command, args}, debug: {command, args} }
serverOptions_Swapped(command, root) ==
    [run |-> [command |-> command, args |-> <<"--directory", root>>],
     debug |-> [command |-> command, args |-> <<root, "--directory">>]]

serverOptions(command, root) ==
    [run |-> [command |-> command, args |-> <<"--directory", root>>],
     debug |-> [command |-> command, args |-> <<"--directory", root>>]]

(* ------------------------- clientOptions ------------------------------- *)
\* createFileSystemWatcher('**/*.py', false, true, true)
WatcherPattern == [anyDirs |-> TRUE, name |-> <<"*", ".", "p", "y">>]
ignoreCreateEvents == FALSE
ignoreChangeEvents_Off == FALSE

ignoreChangeEvents == TRUE
ignoreDeleteEvents == TRUE

\* initializationOptions.excludePatterns: "**/<dir>/**" for each of these
excludePatterns == <<".venv", "venv", ".env", "env">>

IsSuffix(suf, s) ==
    /\ Len(suf) <= Len(s)
    /\ SubSeq(s, Len(s) - Len(suf) + 1, Len(s)) = suf

\* a name pattern "*<rest>" matches every name that ends in <rest>
GlobMatchName(pat, name) ==
    IF Len(pat) > 0 /\ Head(pat) = "*"
    THEN IsSuffix(Tail(pat), name)
    ELSE pat = name

\* "**/" matches any number of leading directories, none included
GlobMatch(pattern, path) ==
    /\ pattern.anyDirs \/ path.dirs = <<>>
    /\ GlobMatchName(pattern.name, path.name)

\* the path lies under a directory one of the exclude patterns names
UnderExcluded(path) ==
    \E i \in 1..Len(path.dirs) :
        \E j \in 1..Len(excludePatterns) : path.dirs[i] = excludePatterns[j]

Suppressed(kind) ==
    \/ kind = "create" /\ ignoreCreateEvents
    \/ kind = "change" /\ ignoreChangeEvents
    \/ kind = "delete" /\ ignoreDeleteEvents

\* the watcher raises the event to the client
WatcherFires(kind, path) ==
    ~Suppressed(kind) /\ GlobMatch(WatcherPattern, path)

(* ------------------------- the language client ------------------------- *)
\* new LanguageClient('pydance', 'Pydance', serverOptions, clientOptions)
NewClient(so) ==
    [state |-> "Stopped", serverOptions |-> so, trace |-> "Off",
     startTask |-> "none", started |-> FALSE, gone |-> FALSE, received |-> <<>>]

\* client.setTrace(level)
setTrace(c, level) == [c EXCEPT !.trace = level]

\* client.start(): the task is returned at once, the handshake runs later
start(c) == [c EXCEPT !.state = "Starting", !.startTask = "pending"]

\* the states in which a client holds or is acquiring a server process
LiveStates == {"Starting", "Running", "Stopping"}

\* the tasks client.stop() may return, by the state it is called in
StopOutcome_RaisesWhenGone(c) ==
    IF c.gone THEN {"rejected"}
    ELSE IF c.state \in {"Running", "Stopping"} THEN {"pending"}
    ELSE IF c.state = "Stopped" THEN {"resolved"}
    ELSE {"resolved", "rejected"}

StopOutcome(c) ==
    IF c.state \in {"Running", "Stopping"} THEN {"pending"}
    ELSE IF c.state = "Stopped" THEN {"resolved"}
    ELSE {"resolved", "rejected"}

\* the state client.stop() leaves the client in
stop_NoShutdown(c) == c

stop(c) ==
    IF c.state = "Running" THEN [c EXCEPT !.state = "Stopping"] ELSE c

\* whether anything observes the task start() returns (line 76 drops it)
StartAwaited == FALSE

\* the inputs the host has delivered so far
Inputs == activations + deactivations + searchPending + Len(searchResults)
              + searchFailed + eventCount

(* ------------------------------- Init ---------------------------------- *)
Init ==
    /\ workspaceFolders = [defined |-> FALSE, list |-> <<>>]
    /\ extensionPath \in ExtensionPaths
    /\ client = 0
    /\ clients = <<>>
    /\ outputChannel = <<>>
    /\ calls = <<>>
    /\ stopCalls = <<>>
    /\ subscriptions = 0
    /\ ret = [op |-> "none", outcome |-> "none"]
    /\ unhandled = {}
    /\ activations = 0
    /\ deactivations = 0
    /\ searchPending = 0
    /\ searchResults = <<>>
    /\ searchFailed = 0
    /\ lastEvent = [kind |-> "none", path |-> [dirs |-> <<>>, name |-> <<>>]]
    /\ eventCount = 0

(* ------------------------------ host ----------------------------------- *)
\* the host does not activate while a client is Running
HostMayActivate == \A i \in 1..Len(clients) : clients[i].state # "Running"

(* ----------------------------- activate -------------------------------- *)
\* the calls activate makes once a workspace root is known, in program order:
\* new LanguageClient, client.setTrace, client.start, commands.registerCommand
ActivateCalls_StartTwice(id) ==
    <<[api |-> "new", client |-> id],
      [api |-> "setTrace", client |-> id],
      [api |-> "start", client |-> id],
      [api |-> "start", client |-> id],
      [api |-> "registerCommand", client |-> id]>>

ActivateCalls_RegisterFirst(id) ==
    <<[api |-> "registerCommand", client |-> id],
      [api |-> "new", client |-> id],
      [api |-> "setTrace", client |-> id],
      [api |-> "start", client |-> id]>>

ActivateCalls(id) ==
    <<[api |-> "new", client |-> id],
      [api |-> "setTrace", client |-> id],
      [api |-> "start", client |-> id],
      [api |-> "registerCommand", client |-> id]>>

Activate(folders) ==
    /\ Inputs < MaxInputs
    /\ HostMayActivate
    /\ workspaceFolders' = folders
    /\ activations' = activations + 1
    /\ ret' = [op |-> "activate", outcome |-> "returned"]
    /\ LET root == workspaceRoot(folders)
           head == outputChannel \o <<Line(MsgActivating), LineArg(MsgServerPath, serverPath)>>
       IN  IF Aborts(root)
           THEN /\ outputChannel' = Append(head, Line(MsgNoWorkspace))
                /\ UNCHANGED <<client, clients, calls, subscriptions>>
           ELSE LET r == IF root = <<>> THEN "undefined" ELSE root[1]
                    id == Len(clients) + 1
                    made == NewClient(serverOptions(serverPath, r))
                    traced == setTrace(made, "Verbose")
                    started == start(traced)
                IN  /\ clients' = Append(clients, started)
                    /\ client' = id
                    /\ calls' = calls \o ActivateCalls(id)
                    /\ outputChannel' = head \o <<LineArg(MsgWorkspaceRoot, <<r>>),
                                                  Line(MsgStarting), Line(MsgStarted)>>
                    /\ subscriptions' = subscriptions + 1
    /\ UNCHANGED <<extensionPath, stopCalls, unhandled, deactivations, searchVars, eventVars>>

(* ---------------------------- deactivate ------------------------------- *)
\* if (!client) return undefined
NoClient_Never(cl) == FALSE

NoClient(cl) == cl = 0

Deactivate ==
    /\ Inputs < MaxInputs
    /\ deactivations' = deactivations + 1
    /\ IF NoClient(client)
       THEN /\ ret' = [op |-> "deactivate", outcome |-> "undefined"]
            /\ UNCHANGED <<clients, stopCalls>>
       ELSE IF client = 0
       THEN \* undefined.stop() raises a TypeError
            /\ ret' = [op |-> "deactivate", outcome |-> "threw"]
            /\ UNCHANGED <<clients, stopCalls>>
       ELSE \E task \in StopOutcome(clients[client]) :
            /\ ret' = [op |-> "deactivate", outcome |-> "task"]
            /\ stopCalls' = Append(stopCalls,
                   [client |-> client, state |-> clients[client].state,
                    started |-> clients[client].started,
                    gone |-> clients[client].gone, task |-> task])
            /\ clients' = [clients EXCEPT ![client] = stop(@)]
    /\ UNCHANGED <<hostVars, client, outputChannel, calls, subscriptions, unhandled,
                   activations, searchVars, eventVars>>

(* ------------------- the client's asynchronous steps ------------------- *)
HandshakeSuccess(c) ==
    /\ clients[c].state = "Starting"
    /\ clients' = [clients EXCEPT ![c] =
                      [@ EXCEPT !.state = "Running", !.startTask = "resolved",
                                !.started = TRUE]]
    /\ UNCHANGED <<hostVars, client, outputChannel, calls, stopCalls, subscriptions, ret,
                   unhandled, activations, deactivations, searchVars, eventVars>>

\* spawn failure, handshake timeout or protocol violation
HandshakeFailure(c) ==
    /\ clients[c].state = "Starting"
    /\ clients' = [clients EXCEPT ![c] =
                      [@ EXCEPT !.state = "Stopped", !.startTask = "rejected"]]
    /\ outputChannel' = Append(outputChannel, Line(MsgStartFailed))
    /\ unhandled' = IF StartAwaited THEN unhandled ELSE unhandled \cup {c}
    /\ UNCHANGED <<hostVars, client, calls, stopCalls, subscriptions, ret,
                   activations, deactivations, searchVars, eventVars>>

\* the server process dies on its own while the client is Running
ProcessExit(c) ==
    /\ clients[c].state = "Running"
    /\ ~clients[c].gone
    /\ clients' = [clients EXCEPT ![c] = [@ EXCEPT !.gone = TRUE]]
    /\ UNCHANGED <<hostVars, client, outputChannel, calls, stopCalls, subscriptions, ret,
                   unhandled, activations, deactivations, searchVars, eventVars>>

\* the shutdown exchange ends; every task waiting on it completes
ShutdownComplete(c) ==
    /\ clients[c].state = "Stopping"
    /\ clients' = [clients EXCEPT ![c] = [@ EXCEPT !.state = "Stopped"]]
    /\ stopCalls' = [i \in 1..Len(stopCalls) |->
                        IF stopCalls[i].client = c /\ stopCalls[i].task = "pending"
                        THEN [stopCalls[i] EXCEPT !.task = "resolved"]
                        ELSE stopCalls[i]]
    /\ UNCHANGED <<hostVars, client, outputChannel, calls, subscriptions, ret,
                   unhandled, activations, deactivations, searchVars, eventVars>>

(* --------------------------- search command ---------------------------- *)
\* the lines the handler appends once executeCommand has returned result
SearchCompletion_OnlyWithResults(result) ==
    IF result = 0 THEN <<>> ELSE <<Line(MsgSearchDone)>>

SearchCompletion(result) == <<Line(MsgSearchDone)>>

\* the user runs pydance.search: the handler calls executeCommand and suspends
InvokeSearch ==
    /\ subscriptions > 0
    /\ Inputs < MaxInputs
    /\ searchPending' = searchPending + 1
    /\ UNCHANGED <<hostVars, client, clients, outputChannel, calls, stopCalls,
                   subscriptions, ret, unhandled, activations, deactivations,
                   searchResults, searchFailed, eventVars>>

\* executeCommand('workbench.action.showAllSymbols') returns; the handler resumes
CapabilityReturns ==
    /\ searchPending > 0
    /\ \E n \in ResultCounts :
          /\ searchResults' = Append(searchResults, n)
          /\ outputChannel' = outputChannel \o SearchCompletion(n)
    /\ searchPending' = searchPending - 1
    /\ UNCHANGED <<hostVars, client, clients, calls, stopCalls, subscriptions, ret,
                   unhandled, activations, deactivations, searchFailed, eventVars>>

\* executeCommand fails; the await rethrows and the handler ends there
CapabilityFails ==
    /\ searchPending > 0
    /\ searchPending' = searchPending - 1
    /\ searchFailed' = searchFailed + 1
    /\ UNCHANGED <<hostVars, client, clients, outputChannel, calls, stopCalls,
                   subscriptions, ret, unhandled, activations, deactivations,
                   searchResults, eventVars>>

(* ----------------------------- file events ----------------------------- *)
\* a file-system event reaches the watchers the activations created: every
\* Running client whose watcher fires forwards it
FileEvent ==
    /\ Len(clients) > 0
    /\ Inputs < MaxInputs
    /\ eventCount' = eventCount + 1
    /\ \E kind \in EventKinds, path \in EventPaths :
          /\ lastEvent' = [kind |-> kind, path |-> path]
          /\ clients' = [i \in 1..Len(clients) |->
                            IF clients[i].state = "Running" /\ WatcherFires(kind, path)
                            THEN [clients[i] EXCEPT
                                     !.received = Append(@, [kind |-> kind, path |-> path])]
                            ELSE clients[i]]
    /\ UNCHANGED <<hostVars, client, outputChannel, calls, stopCalls, subscriptions, ret,
                   unhandled, activations, deactivations, searchVars>>

(* ------------------------------- Next ---------------------------------- *)
Next ==
    \/ \E folders \in FolderConfigs : Activate(folders)
    \/ Deactivate
    \/ \E c \in 1..Len(clients) : HandshakeSuccess(c)
    \/ \E c \in 1..Len(clients) : HandshakeFailure(c)
    \/ \E c \in 1..Len(clients) : ProcessExit(c)
    \/ \E c \in 1..Len(clients) : ShutdownComplete(c)
    \/ InvokeSearch
    \/ CapabilityReturns
    \/ CapabilityFails
    \/ FileEvent

Spec == Init /\ [][Next]_vars

\* a shutdown exchange that has begun is carried to its end
ShutdownFairness ==
    \A c \in 1..MaxInputs : WF_vars(c <= Len(clients) /\ ShutdownComplete(c))

SpecFair == Spec /\ ShutdownFairness

(* ======================= properties of the bridge ====================== *)
Last(s) == s[Len(s)]

HasLine(text) == \E i \in 1..Len(outputChannel) : outputChannel[i].line = text

IsSearchLine(l) == l.line = MsgSearchDone

\* the lifecycle state as the controller sees it through the client reference
ControllerState == IF client = 0 THEN "Stopped" ELSE clients[client].state

NoWorkspace(folders) == ~folders.defined \/ Len(folders.list) = 0

ActivateStep == activations' = activations + 1

DeactivateStep == deactivations' = deactivations + 1

\* C1: an activation that finds the workspace-folder list absent or empty
\* constructs no client, makes no call on a client (no start()), appends the
\* "Server not starting" line as its last line and returns normally.
C1_NoWorkspaceNoClient ==
    [][(ActivateStep /\ NoWorkspace(workspaceFolders'))
          => /\ clients' = clients
             /\ calls' = calls
             /\ Len(outputChannel') > Len(outputChannel)
             /\ Last(outputChannel') = Line(MsgNoWorkspace)
             /\ ret' = [op |-> "activate", outcome |-> "returned"]]_vars

C1_Witness ==
    /\ activations = 1
    /\ workspaceFolders = [defined |-> TRUE, list |-> <<>>]
    /\ ret.op = "activate"
    /\ clients = <<>>
    /\ Last(outputChannel) = Line(MsgNoWorkspace)

\* C2: once a client that had reached Running has been shut down (Stopped),
\* no further stop() is issued on it by a later deactivate.
C2_NoStopAfterShutdown ==
    \A i \in 1..Len(stopCalls) :
        ~(stopCalls[i].started /\ stopCalls[i].state = "Stopped")

\* C3: whenever start() has failed, the failure is in the log, the client is
\* Stopped and the failed task has not gone unobserved.
C3_StartFailureContained ==
    \A c \in 1..Len(clients) :
        clients[c].startTask = "rejected"
            => /\ HasLine(MsgStartFailed)
               /\ clients[c].state = "Stopped"
               /\ c \notin unhandled

\* C4: a change event for a path that matches the watcher's pattern and lies
\* under no excluded directory is forwarded exactly once by a Running client.
C4_ChangeForwardedOnce ==
    [][\A c \in 1..Len(clients) :
          (/\ eventCount' = eventCount + 1
           /\ lastEvent'.kind = "change"
           /\ GlobMatch(WatcherPattern, lastEvent'.path)
           /\ ~UnderExcluded(lastEvent'.path)
           /\ clients[c].state = "Running")
          => clients'[c].received = Append(clients[c].received, lastEvent')]_vars

\* C5: a deactivate call made while no client has ever been constructed
\* returns undefined, issues no stop(), raises nothing and leaves the
\* controller Stopped with the reference still undefined.
C5_DeactivateWithoutClient ==
    [][(DeactivateStep /\ clients = <<>>)
          => /\ ret' = [op |-> "deactivate", outcome |-> "undefined"]
             /\ stopCalls' = stopCalls
             /\ clients' = clients
             /\ client' = 0
             /\ ControllerState' = "Stopped"]_vars

C5_Witness ==
    /\ activations = 1
    /\ clients = <<>>
    /\ deactivations = 2
    /\ ret = [op |-> "deactivate", outcome |-> "undefined"]

\* C6: an activation that finds a first workspace folder R constructs a client
\* whose run and debug descriptors both are the fixed extension-relative
\* server path with the arguments "--directory", R.
C6_Descriptor ==
    [][(ActivateStep /\ ~NoWorkspace(workspaceFolders'))
          => LET R == workspaceFolders'.list[1]
                 D == [command |-> extensionPath \o
                                     <<"server", "target", "release", "symbol_search_lsp">>,
                       args |-> <<"--directory", R>>]
             IN  /\ Len(clients') = Len(clients) + 1
                 /\ Last(clients').serverOptions = [run |-> D, debug |-> D]]_vars

C6_Witness ==
    /\ Len(clients) = 2
    /\ clients[1].serverOptions.debug.args = <<"--directory", "/w2">>
    /\ clients[2].serverOptions.run.args = <<"--directory", "/w1">>

\* C7: the log holds exactly one completion line for every capability call
\* that has returned, whatever number of results it returned, and none for a
\* call that is still being awaited.
C7_OneLinePerReturnedSearch ==
    Len(SelectSeq(outputChannel, IsSearchLine)) = Len(searchResults)

C7_Witness ==
    /\ searchResults = <<0>>
    /\ searchPending = 1
    /\ Len(SelectSeq(outputChannel, IsSearchLine)) = 1

\* C8: a stop() issued by deactivate on a client whose server process had
\* already gone never comes back as a failure.
C8_StopAfterProcessGone ==
    \A i \in 1..Len(stopCalls) :
        stopCalls[i].gone => stopCalls[i].task # "rejected"

C8_Witness ==
    \E i \in 1..Len(stopCalls) :
        /\ stopCalls[i].gone
        /\ stopCalls[i].state = "Running"
        /\ stopCalls[i].task = "resolved"
        /\ ret = [op |-> "deactivate", outcome |-> "task"]

\* C9: at most one client is live (Starting, Running or Stopping) at a time,
\* and no more clients have been constructed than there were activations.
C9_AtMostOneLiveClient ==
    /\ Cardinality({c \in 1..Len(clients) : clients[c].state \in LiveStates}) <= 1
    /\ Len(clients) <= activations

\* C10: every stop() deactivate issues finds the client Running.
C10_StopOnlyWhenRunning ==
    \A i \in 1..Len(stopCalls) : stopCalls[i].state = "Running"

IsStartCall(k) == k.api = "start"

StartCount == Len(SelectSeq(calls, IsStartCall))

\* C12: a step issues at most one start(), and only an activate call issues
\* one: nothing restarts a client after its start has failed.
C12_StartOnlyByActivate ==
    [][/\ StartCount' <= StartCount + 1
       /\ StartCount' # StartCount => ActivateStep]_vars

C12_Witness ==
    /\ Len(clients) = 2
    /\ clients[1].startTask = "rejected"
    /\ clients[2].startTask = "rejected"
    /\ deactivations = 1
    /\ StartCount = 2

\* C13: an activation with a workspace makes exactly the calls new, setTrace,
\* start, registerCommand in this order, with the trace level Verbose on the
\* started client; an activation without a workspace makes none of them.
C13_ActivationOrder ==
    [][ActivateStep
          => IF NoWorkspace(workspaceFolders')
             THEN calls' = calls /\ subscriptions' = subscriptions
             ELSE LET id == Len(clients) + 1
                  IN  /\ SubSeq(calls', 1, Len(calls)) = calls
                      /\ Len(calls') = Len(calls) + 4
                      /\ calls'[Len(calls) + 1] = [api |-> "new", client |-> id]
                      /\ calls'[Len(calls) + 2] = [api |-> "setTrace", client |-> id]
                      /\ calls'[Len(calls) + 3] = [api |-> "start", client |-> id]
                      /\ calls'[Len(calls) + 4] = [api |-> "registerCommand", client |-> id]
                      /\ Last(clients').trace = "Verbose"
                      /\ subscriptions' = subscriptions + 1]_vars

C13_Witness ==
    /\ activations = 3
    /\ NoWorkspace(workspaceFolders)
    /\ Len(calls) = 8
    /\ calls[8] = [api |-> "registerCommand", client |-> 2]
    /\ subscriptions = 2

\* the i-th stop() was issued on a Running client and its task is still open
StopInFlight(i) ==
    /\ i <= Len(stopCalls)
    /\ stopCalls[i].state = "Running"
    /\ stopCalls[i].task = "pending"

StopDone(i) ==
    /\ i <= Len(stopCalls)
    /\ stopCalls[i].task = "resolved"
    /\ clients[stopCalls[i].client].state = "Stopped"

\* C14: while the task of a deactivate called in Running is open the client
\* is Stopping, and under fairness of the shutdown exchange the client
\* eventually is Stopped with the task completed.
C14_ShutdownCompletes ==
    \A i \in 1..MaxInputs :
        /\ [](StopInFlight(i) => clients[stopCalls[i].client].state = "Stopping")
        /\ StopInFlight(i) ~> StopDone(i)

C14_Witness ==
    /\ Len(stopCalls) = 1
    /\ stopCalls[1].state = "Running"
    /\ StopDone(1)

\* line i of the log belongs to the most recent activation
InCurrentActivation(i) ==
    \E k \in 1..i :
        /\ outputChannel[k].line = MsgActivating
        /\ \A j \in (k + 1)..Len(outputChannel) : outputChannel[j].line # MsgActivating

\* C15: whenever the log of the current activation holds the line "Language
\* client started.", the referenced client has reached Running.
C15_StartedLineImpliesRunning ==
    \A i \in 1..Len(outputChannel) :
        (outputChannel[i].line = MsgStarted /\ InCurrentActivation(i))
            => client # 0 /\ clients[client].started

\* C16: an activation that aborts for lack of a workspace folder changes
\* neither the client reference nor any client, and a later deactivate that
\* finds a reference issues its stop() on exactly that client.
C16_AbortKeepsReference ==
    [][/\ (ActivateStep /\ NoWorkspace(workspaceFolders'))
           => /\ client' = client
              /\ clients' = clients
              /\ ControllerState' = ControllerState
       /\ (DeactivateStep /\ client # 0)
           => /\ Len(stopCalls') = Len(stopCalls) + 1
              /\ Last(stopCalls').client = client]_vars

C16_Witness ==
    /\ activations = 2
    /\ NoWorkspace(workspaceFolders)
    /\ client = 1
    /\ Len(clients) = 1
    /\ deactivations = 1
    /\ Len(stopCalls) = 1
    /\ stopCalls[1].client = 1

====
